---- MODULE Spec2Model ----
(***************************************************************************)
(* DashWidgets (src/main.py): the multi-window engine of the desktop       *)
(* widgets.  BaseWidget objects (geometry, drag/resize capture, snapping,  *)
(* click-through and top-most flags), the global list                      *)
(* BaseWidget._all_widgets, WidgetManager.widgets, the in-memory           *)
(* WidgetConfig and the configuration file on disk.                        *)
(*                                                                         *)
(* Conventions.  A Python None is the empty tuple << >> and a present      *)
(* value v is << v >> (or the tuple itself for points, sizes and           *)
(* rectangles).  widget_opacity, a float set as value / 100, is kept as    *)
(* the integer percent value.  Widget objects are numbered in creation     *)
(* order: inst[s] is the s-th BaseWidget the process constructed.          *)
(***************************************************************************)
EXTENDS Integers, Sequences, FiniteSets, TLC

VARIABLES
    inst,         \* the BaseWidget objects of the running process
    all_widgets,  \* BaseWidget._all_widgets: object numbers, in list order
    mgr,          \* WidgetManager.widgets: widget_id -> object number
    config,       \* the WidgetConfig singleton (in memory)
    disk,         \* CONFIG_FILE: << >> (no file) or << document >>
    buttons,      \* the mouse buttons currently held
    grab,         \* the object receiving mouse events while a button is held, or 0
    hist,         \* what the last step did (read by the properties only)
    clean,        \* the last step ended in a successful config.save()
    writes,       \* "failed": a write of config.save() failed and none has
                  \* succeeded since; "recovered": the first one after that did
    moved         \* what the pointer moves of the current gesture changed

vars == <<inst, all_widgets, mgr, config, disk, buttons, grab, hist, clean, writes, moved>>

----------------------------------------------------------------------------
(* Bounds of the model *)

\* BaseWidget objects one process constructs
MaxInst == 2

(* Program constants *)

SHADOW_MARGIN == 10
resize_handle_size == 16
min_w == 200
min_h == 150
max_w == 800
max_h == 600
DefaultOpacity == 95
DefaultThreshold == 20
SliderMin == 50
SliderMax == 100
IndicatorThickness == 3

\* BaseWidget.SIZE_MAP with the default of SIZE_MAP.get(size_key, (220, 220))
SIZE_MAP(size_key) ==
    CASE size_key = "small"  -> <<160, 160>>
      [] size_key = "medium" -> <<220, 220>>
      [] size_key = "large"  -> <<320, 280>>
      [] size_key = "xlarge" -> <<480, 360>>
      [] OTHER               -> <<220, 220>>

\* WidgetManager.WIDGET_CLASSES.get(widget_type): the class exists
WIDGET_CLASSES(widget_type) == widget_type \in {"ClockWidget", "NotesWidget"}

None == << >>

Abs(n) == IF n < 0 THEN 0 - n ELSE n
Max(a, b) == IF a < b THEN b ELSE a
Min(a, b) == IF a < b THEN a ELSE b

----------------------------------------------------------------------------
(* Rectangles as Qt reads them: QRect(x, y, w, h) *)

QRect(x, y, w, h) == [x |-> x, y |-> y, w |-> w, h |-> h]
Left(r) == r.x
Top(r) == r.y
\* QRect.right() and QRect.bottom() are inclusive: left + width - 1
Right(r) == r.x + r.w - 1
Bottom(r) == r.y + r.h - 1
Contains(r, p) ==
    /\ p[1] >= Left(r) /\ p[1] <= Right(r)
    /\ p[2] >= Top(r)  /\ p[2] <= Bottom(r)

\* QApplication.screenAt(...).availableGeometry(): one monitor
screen_rect == QRect(0, 0, 1920, 1080)

\* self.width() / self.height(): the fixed size set by setFixedSize
Width(w) == w.content_width + SHADOW_MARGIN * 2
Height(w) == w.content_height + SHADOW_MARGIN * 2
\* other.geometry() (frameless: the same as frameGeometry())
Geometry(w) == QRect(w.x, w.y, Width(w), Height(w))

----------------------------------------------------------------------------
(* The configuration and its file *)

\* config.widgets: the first entry whose "id" is widget_id, or 0
RECURSIVE FindFrom(_, _, _)
FindFrom(entries, widget_id, i) ==
    IF i > Len(entries) THEN 0
    ELSE IF entries[i].id = <<widget_id>> THEN i
    ELSE FindFrom(entries, widget_id, i + 1)

FindEntry(entries, widget_id) == FindFrom(entries, widget_id, 1)

\* WidgetConfig.__init__ defaults
DefaultConfig ==
    [widgets |-> << >>, widget_opacity |-> DefaultOpacity,
     snap_enabled |-> TRUE, snap_threshold |-> DefaultThreshold]

\* WidgetConfig.load: the file's values, the defaults when there is no file
Load(file) == IF file = None THEN DefaultConfig ELSE file[1]

\* A variant of Save that writes the widget list and leaves the settings of
\* the file as they are
SaveWidgetsOnly(cfg, file, ok) ==
    IF ok THEN <<[Load(file) EXCEPT !.widgets = cfg.widgets]>> ELSE file

\* WidgetConfig.save: the whole configuration overwrites the file; a failed
\* write is logged and leaves the file as it was
Save(cfg, file, ok) == IF ok THEN <<cfg>> ELSE file

----------------------------------------------------------------------------
(* BaseWidget construction *)

\* BaseWidget._load_top_state: always_on_top of the first entry with this id
LoadTopState(cfg, widget_id) ==
    LET i == FindEntry(cfg.widgets, widget_id)
    IN  IF i = 0 THEN FALSE ELSE cfg.widgets[i].always_on_top

\* BaseWidget.__init__ with _init_window, _load_top_state and _apply_top_state
\* (which shows the window).  place is where the window system puts a window
\* that was never moved; layered is whether the native window it creates
\* carries WS_EX_LAYERED.
NewWidget(widget_id, size, cfg, place, layered) ==
    [widget_id |-> widget_id,
     size_key |-> size,
     opacity |-> cfg.widget_opacity,
     drag_pos |-> None,
     snap_indicator_rect |-> None,
     snap_indicator_type |-> None,
     click_through |-> FALSE,
     always_on_top |-> LoadTopState(cfg, widget_id),
     resizing |-> FALSE,
     resize_start_pos |-> None,
     resize_start_size |-> None,
     content_width |-> SIZE_MAP(size)[1],
     content_height |-> SIZE_MAP(size)[2],
     x |-> place[1],
     y |-> place[2],
     visible |-> TRUE,
     closing |-> FALSE,
     ex_transparent |-> FALSE,
     ex_layered |-> layered,
     topmost |-> LoadTopState(cfg, widget_id)]

\* An enable that leaves the native style alone
UnstyledClickThrough(w, ok) == w

\* SetWindowLongW(hwnd, GWL_EXSTYLE, ex_style | WS_EX_TRANSPARENT | WS_EX_LAYERED);
\* a failed call changes nothing and is not noticed
SetClickThroughStyle(w, ok) ==
    IF ok THEN [w EXCEPT !.ex_transparent = TRUE, !.ex_layered = TRUE] ELSE w

\* A disable that leaves the native style alone
KeepClickThroughStyle(w, ok) == w

\* SetWindowLongW(hwnd, GWL_EXSTYLE, ex_style & ~WS_EX_TRANSPARENT)
ClearClickThroughStyle(w, ok) ==
    IF ok THEN [w EXCEPT !.ex_transparent = FALSE] ELSE w

----------------------------------------------------------------------------
(* WidgetManager._restore_widgets *)

\* "if widget_class and widget_id"
Restorable(e) == WIDGET_CLASSES(e.type) /\ e.id # None /\ e.id # <<"">>

\* One iteration of the loop over config.widgets, on st = the objects, the
\* global list and the manager's dict so far
RestoreOne(st, cfg, e, place, layered, ok) ==
    IF ~Restorable(e) THEN st
    ELSE
      LET created == NewWidget(e.id[1], e.size, cfg, place, layered)
          placed == IF Len(e.position) >= 2
                    THEN [created EXCEPT !.x = e.position[1], !.y = e.position[2]]
                    ELSE created
          w == IF e.click_through
               THEN SetClickThroughStyle([placed EXCEPT !.click_through = TRUE], ok)
               ELSE placed
          s == Len(st.inst) + 1
      IN  [inst |-> Append(st.inst, w),
           all_widgets |-> Append(st.all_widgets, s),
           mgr |-> (e.id[1] :> s) @@ st.mgr]

RECURSIVE RestoreFrom(_, _, _, _, _, _)
RestoreFrom(st, cfg, i, place, layered, ok) ==
    IF i > Len(cfg.widgets) THEN st
    ELSE RestoreFrom(RestoreOne(st, cfg, cfg.widgets[i], place, layered, ok),
                     cfg, i + 1, place, layered, ok)

RestoreWidgets(st, cfg, place, layered, ok) ==
    RestoreFrom(st, cfg, 1, place, layered, ok)

\* The number of objects _restore_widgets constructs
RestoreCount(cfg) ==
    Cardinality({i \in 1..Len(cfg.widgets) : Restorable(cfg.widgets[i])})

EmptyMgr == [i \in {} |-> 0]

\* A fresh process: config = WidgetConfig() loads the file, WidgetManager()
\* restores the widgets
StartProcess(file, place, layered) ==
    RestoreWidgets([inst |-> << >>, all_widgets |-> << >>, mgr |-> EmptyMgr],
                   Load(file), place, layered, TRUE)

----------------------------------------------------------------------------
(* Mouse handlers of BaseWidget *)

\* bool(QPoint): a null point (0, 0) is false, like None
Truthy(p) == p # None /\ p # <<0, 0>>

\* A variant of IsOnResizeHandle whose square is not inset by the margin
IsOnCornerSquare(w, pos) ==
    Contains(QRect(Width(w) - resize_handle_size, Height(w) - resize_handle_size,
                   resize_handle_size, resize_handle_size), pos)

\* BaseWidget._is_on_resize_handle, pos in window coordinates
IsOnResizeHandle(w, pos) ==
    Contains(QRect(Width(w) - SHADOW_MARGIN - resize_handle_size,
                   Height(w) - SHADOW_MARGIN - resize_handle_size,
                   resize_handle_size, resize_handle_size), pos)

\* BaseWidget.mousePressEvent: local = event.position(), global = event.globalPosition()
MousePress(w, button, local, global) ==
    IF button = "left"
    THEN IF IsOnResizeHandle(w, local)
         THEN [w EXCEPT !.resizing = TRUE,
                        !.resize_start_pos = global,
                        !.resize_start_size = <<w.content_width, w.content_height>>]
         ELSE [w EXCEPT !.drag_pos = <<global[1] - w.x, global[2] - w.y>>]
    ELSE w

\* A clamp without the upper bound
ClampWidthNoMax(new_width) == Max(min_w, new_width)

\* The clamp of BaseWidget._update_widget_size
ClampWidth(new_width) == Max(min_w, Min(max_w, new_width))
ClampHeight(new_height) == Max(min_h, Min(max_h, new_height))

\* A variant of UpdateWidgetSize that keeps the window's right edge in place
UpdateWidgetSizeRightAnchored(w, new_width, new_height) ==
    [w EXCEPT !.content_width = ClampWidth(new_width),
              !.content_height = ClampHeight(new_height),
              !.x = w.x + w.content_width - ClampWidth(new_width)]

\* BaseWidget._update_widget_size on the object ...
UpdateWidgetSize(w, new_width, new_height) ==
    [w EXCEPT !.content_width = ClampWidth(new_width),
              !.content_height = ClampHeight(new_height)]

\* The calls of the hook _on_size_changed that _update_widget_size makes for
\* the resized widget w, as the sizes it is called for: the method clamps,
\* sets the fixed size, writes custom_width / custom_height and saves, and
\* calls no hook (nothing in the program calls _on_size_changed)
SizeChangedCalls(w) == << >>

\* ... and on config.widgets: custom_width / custom_height of the first entry
\* with this id
SaveCustomSize(entries, w) ==
    LET i == FindEntry(entries, w.widget_id)
    IN  IF i = 0 THEN entries
        ELSE [entries EXCEPT ![i].custom_width = <<w.content_width>>,
                             ![i].custom_height = <<w.content_height>>]

\* A variant of SavePosition that writes nothing
SaveNoPosition(entries, w) == entries

\* "widget_config['position'] = [self.x(), self.y()]; ['size'] = self.size_key;
\* ['click_through'] = self.click_through" of _on_close and mouseReleaseEvent
SavePosition(entries, w) ==
    LET i == FindEntry(entries, w.widget_id)
    IN  IF i = 0 THEN entries
        ELSE [entries EXCEPT ![i].position = <<w.x, w.y>>,
                             ![i].size = w.size_key,
                             ![i].click_through = w.click_through]

\* Two overlap tests that do not look: every pair overlaps, no pair does
CheckYOverlapAlways(w, my_y, other_rect) == TRUE
CheckYOverlapNever(w, my_y, other_rect) == FALSE

\* BaseWidget._check_y_overlap / _check_x_overlap
CheckYOverlap(w, my_y, other_rect) ==
    ~(my_y + Height(w) < Top(other_rect) \/ my_y > Bottom(other_rect))

CheckXOverlap(w, my_x, other_rect) ==
    ~(my_x + Width(w) < Left(other_rect) \/ my_x > Right(other_rect))

\* A screen-edge test that knows the left edge only
ScreenSnapLeftOnly(w, new_pos, threshold) ==
    [snap_x |-> IF Abs(new_pos[1] - Left(screen_rect)) < threshold
                THEN <<Left(screen_rect)>> ELSE None,
     type_x |-> None, snap_y |-> None, type_y |-> None, src_x |-> 0, src_y |-> 0]

\* A variant of ScreenSnap in which a distance equal to the threshold matches
ScreenSnapInclusive(w, new_pos, threshold) ==
    [snap_x |-> IF Abs(new_pos[1] - Left(screen_rect)) <= threshold
                THEN <<Left(screen_rect)>> ELSE None,
     type_x |-> IF Abs(new_pos[1] - Left(screen_rect)) <= threshold
                THEN <<"screen_left">> ELSE None,
     snap_y |-> IF Abs(new_pos[2] - Top(screen_rect)) <= threshold
                THEN <<Top(screen_rect)>> ELSE None,
     type_y |-> IF Abs(new_pos[2] - Top(screen_rect)) <= threshold
                THEN <<"screen_top">> ELSE None,
     src_x |-> 0, src_y |-> 0]

\* A variant of ScreenSnap that takes the left and top edges at up to twice
\* the threshold
ScreenSnapWide(w, new_pos, threshold) ==
    [snap_x |-> IF Abs(new_pos[1] - Left(screen_rect)) < 2 * threshold
                THEN <<Left(screen_rect)>> ELSE None,
     type_x |-> IF Abs(new_pos[1] - Left(screen_rect)) < 2 * threshold
                THEN <<"screen_left">> ELSE None,
     snap_y |-> IF Abs(new_pos[2] - Top(screen_rect)) < 2 * threshold
                THEN <<Top(screen_rect)>> ELSE None,
     type_y |-> IF Abs(new_pos[2] - Top(screen_rect)) < 2 * threshold
                THEN <<"screen_top">> ELSE None,
     src_x |-> 0, src_y |-> 0]

\* A variant of SiblingLoop that keeps a screen-edge snap
ScreenFirstLoop(acc, objs, list, s, new_pos, threshold, i) ==
    acc

\* The screen-edge part of mouseMoveEvent: snap_x with snap_type_x, snap_y
\* with snap_type_y.  src_x / src_y name the sibling object a value came from
\* (0: none); they are read by the properties only.
ScreenSnap(w, new_pos, threshold) ==
    LET sx == IF Abs(new_pos[1] - Left(screen_rect)) < threshold
              THEN <<Left(screen_rect), "screen_left">>
              ELSE IF Abs(new_pos[1] + Width(w) - Right(screen_rect)) < threshold
              THEN <<Right(screen_rect) - Width(w), "screen_right">>
              ELSE None
        sy == IF Abs(new_pos[2] - Top(screen_rect)) < threshold
              THEN <<Top(screen_rect), "screen_top">>
              ELSE IF Abs(new_pos[2] + Height(w) - Bottom(screen_rect)) < threshold
              THEN <<Bottom(screen_rect) - Height(w), "screen_bottom">>
              ELSE None
    IN  [snap_x |-> IF sx = None THEN None ELSE <<sx[1]>>,
         type_x |-> IF sx = None THEN None ELSE <<sx[2]>>,
         snap_y |-> IF sy = None THEN None ELSE <<sy[1]>>,
         type_y |-> IF sy = None THEN None ELSE <<sy[2]>>,
         src_x |-> 0, src_y |-> 0]

\* A variant of SiblingSnap in which the first sibling that gives an x keeps it
SiblingSnapFirst(acc, w, new_pos, other, o, threshold) ==
    IF acc.src_x # 0 THEN acc
    ELSE IF /\ Abs(new_pos[1] + Width(w) - Left(Geometry(other))) < threshold
            /\ CheckYOverlap(w, new_pos[2], Geometry(other))
    THEN [acc EXCEPT !.snap_x = <<Left(Geometry(other)) - Width(w)>>,
                     !.type_x = <<"widget_right">>, !.src_x = o]
    ELSE acc

\* One iteration of "for other in BaseWidget._all_widgets" past the
\* "other is self or not other.isVisible()" test; o is other's object number
SiblingSnap(acc, w, new_pos, other, o, threshold) ==
    LET other_rect == Geometry(other)
        ax == IF Abs(new_pos[1] + Width(w) - Left(other_rect)) < threshold
              THEN IF CheckYOverlap(w, new_pos[2], other_rect)
                   THEN [acc EXCEPT !.snap_x = <<Left(other_rect) - Width(w)>>,
                                    !.type_x = <<"widget_right">>, !.src_x = o]
                   ELSE acc
              ELSE IF Abs(new_pos[1] - Right(other_rect)) < threshold
              THEN IF CheckYOverlap(w, new_pos[2], other_rect)
                   THEN [acc EXCEPT !.snap_x = <<Right(other_rect)>>,
                                    !.type_x = <<"widget_left">>, !.src_x = o]
                   ELSE acc
              ELSE acc
    IN  IF Abs(new_pos[2] + Height(w) - Top(other_rect)) < threshold
        THEN IF CheckXOverlap(w, new_pos[1], other_rect)
             THEN [ax EXCEPT !.snap_y = <<Top(other_rect) - Height(w)>>,
                             !.type_y = <<"widget_bottom">>, !.src_y = o]
             ELSE ax
        ELSE IF Abs(new_pos[2] - Bottom(other_rect)) < threshold
        THEN IF CheckXOverlap(w, new_pos[1], other_rect)
             THEN [ax EXCEPT !.snap_y = <<Bottom(other_rect)>>,
                             !.type_y = <<"widget_top">>, !.src_y = o]
             ELSE ax
        ELSE ax

\* A test that skips the dragged widget only
SkipsHiddenNot(objs, s, o) == o = s

\* "if other is self or not other.isVisible(): continue"
Skips(objs, s, o) == o = s \/ ~objs[o].visible

\* The loop over BaseWidget._all_widgets, from list index i on
RECURSIVE SiblingLoop(_, _, _, _, _, _, _)
SiblingLoop(acc, objs, list, s, new_pos, threshold, i) ==
    IF i > Len(list) THEN acc
    ELSE IF Skips(objs, s, list[i])
    THEN SiblingLoop(acc, objs, list, s, new_pos, threshold, i + 1)
    ELSE SiblingLoop(SiblingSnap(acc, objs[s], new_pos, objs[list[i]], list[i], threshold),
                     objs, list, s, new_pos, threshold, i + 1)

\* The snapping of mouseMoveEvent for object s dragged to candidate new_pos
Snap(objs, list, s, new_pos, threshold) ==
    SiblingLoop(ScreenSnap(objs[s], new_pos, threshold),
                objs, list, s, new_pos, threshold, 1)

\* BaseWidget._calculate_snap_indicator (None = None is never a match: a
\* missing snap_x equals no screen coordinate)
CalculateSnapIndicator(w, snap_x, snap_y) ==
    IF snap_x = <<Left(screen_rect)>>
    THEN QRect(0, 0, IndicatorThickness, Height(w))
    ELSE IF snap_x = <<Right(screen_rect) - Width(w)>>
    THEN QRect(Width(w) - IndicatorThickness, 0, IndicatorThickness, Height(w))
    ELSE IF snap_y = <<Top(screen_rect)>>
    THEN QRect(0, 0, Width(w), IndicatorThickness)
    ELSE IF snap_y = <<Bottom(screen_rect) - Height(w)>>
    THEN QRect(0, Height(w) - IndicatorThickness, Width(w), IndicatorThickness)
    ELSE None

\* The drag branch of mouseMoveEvent on the object: the move and the indicator
DragTo(objs, list, s, new_pos, cfg) ==
    LET w == objs[s]
        sn == Snap(objs, list, s, new_pos, cfg.snap_threshold)
    IN  IF cfg.snap_enabled
        THEN [w EXCEPT
               !.x = IF sn.snap_x # None THEN sn.snap_x[1] ELSE new_pos[1],
               !.y = IF sn.snap_y # None THEN sn.snap_y[1] ELSE new_pos[2],
               !.snap_indicator_type =
                   IF sn.type_x # None THEN sn.type_x ELSE sn.type_y,
               !.snap_indicator_rect =
                   IF sn.snap_x # None \/ sn.snap_y # None
                   THEN CalculateSnapIndicator(w, sn.snap_x, sn.snap_y)
                   ELSE None]
        ELSE [w EXCEPT !.x = new_pos[1], !.y = new_pos[2],
                       !.snap_indicator_rect = None]

\* BaseWidget.mouseReleaseEvent on the object
MouseRelease(w) ==
    [w EXCEPT !.resizing = FALSE,
              !.resize_start_pos = IF w.resizing THEN None ELSE @,
              !.resize_start_size = IF w.resizing THEN None ELSE @,
              !.snap_indicator_rect = None]

----------------------------------------------------------------------------
(* What the last step did, for the properties *)

NoHist == [kind |-> "none"]

\* The write history after a config.save() whose write succeeded (ok) or not
Written(was, ok) ==
    IF ~ok THEN "failed"
    ELSE IF was = "failed" THEN "recovered" ELSE "none"

\* What the gesture's moves have changed, after one more move changed what
Moved(what) == IF moved \in {"none", what} THEN what ELSE "both"

\* The entry _add_widget appends (no always_on_top and no custom size yet:
\* .get reads them as False and as missing)
AddedEntry(widget_id, widget_type) ==
    [id |-> <<widget_id>>, type |-> widget_type, size |-> "medium",
     position |-> <<100, 100>>, click_through |-> FALSE, always_on_top |-> FALSE,
     custom_width |-> None, custom_height |-> None]

\* list.remove(self) guarded by "if self in BaseWidget._all_widgets"
ListRemove(list, s) == SelectSeq(list, LAMBDA o : o # s)

\* A variant of WithoutId that keeps every entry
WithEveryEntry(entries, widget_id) == entries

\* "[w for w in config.widgets if w.get('id') != widget_id]"
WithoutId(entries, widget_id) ==
    SelectSeq(entries, LAMBDA e : e.id # <<widget_id>>)

\* del self.widgets[widget_id]
MgrWithout(m, widget_id) == [i \in DOMAIN m \ {widget_id} |-> m[i]]

\* The objects WidgetManager.widgets holds
MgrObjects(m) == {m[i] : i \in DOMAIN m}

\* The ids in use: uuid4 gives _add_widget an id that is none of them
UsedIds ==
    DOMAIN mgr
      \cup {inst[s].widget_id : s \in DOMAIN inst}
      \cup {config.widgets[i].id[1] :
              i \in {j \in 1..Len(config.widgets) : config.widgets[j].id # None}}

\* The persisted click_through of an object: << >> without an entry
PersistedClickThrough(cfg, w) ==
    LET i == FindEntry(cfg.widgets, w.widget_id)
    IN  IF i = 0 THEN None ELSE <<cfg.widgets[i].click_through>>

----------------------------------------------------------------------------
(* The operations.  sok: the file write of config.save() succeeds; nok: the  *)
(* native SetWindowLongW call takes effect; place, layered: see NewWidget.   *)

\* WidgetManager._add_widget
AddWidget(widget_id, widget_type, place, layered, sok) ==
    /\ Len(inst) < MaxInst
    /\ widget_id \notin UsedIds
    /\ LET s == Len(inst) + 1
           cfg2 == [config EXCEPT
                      !.widgets = Append(@, AddedEntry(widget_id, widget_type))]
       IN  /\ inst' = Append(inst, NewWidget(widget_id, "medium", config, place, layered))
           /\ all_widgets' = Append(all_widgets, s)
           /\ mgr' = (widget_id :> s) @@ mgr
           /\ config' = cfg2
           /\ disk' = Save(cfg2, disk, sok)
    /\ clean' = sok
    /\ writes' = Written(writes, sok)
    /\ moved' = moved
    /\ hist' = NoHist
    /\ UNCHANGED <<buttons, grab>>

\* BaseWidget._on_close: the close button or the menu's close item
OnClose(s, sok) ==
    /\ s \in DOMAIN inst
    /\ inst[s].visible
    /\ LET cfg2 == [config EXCEPT !.widgets = SavePosition(@, inst[s])]
       IN  /\ config' = cfg2
           /\ disk' = Save(cfg2, disk, sok)
    /\ all_widgets' = ListRemove(all_widgets, s)
    /\ inst' = [inst EXCEPT ![s].closing = TRUE]
    /\ clean' = sok
    /\ writes' = Written(writes, sok)
    /\ moved' = moved
    /\ hist' = [kind |-> "close", w |-> s,
                mid_drag |-> (grab = s /\ "left" \in buttons
                                /\ ~inst[s].resizing /\ moved = "position"),
                pre |-> Load(disk).widgets]
    /\ UNCHANGED <<mgr, buttons, grab>>

\* BaseWidget._finish_close when the fade-out ends: closed.emit runs
\* WidgetManager._remove_widget, then close() hides the window
FinishClose(s, sok) ==
    /\ s \in DOMAIN inst
    /\ inst[s].closing
    /\ LET cfg2 == [config EXCEPT !.widgets = WithoutId(@, inst[s].widget_id)]
       IN  /\ config' = cfg2
           /\ disk' = Save(cfg2, disk, sok)
    /\ mgr' = MgrWithout(mgr, inst[s].widget_id)
    /\ inst' = [inst EXCEPT ![s].closing = FALSE, ![s].visible = FALSE]
    /\ grab' = IF grab = s THEN 0 ELSE grab
    /\ clean' = sok
    /\ writes' = Written(writes, sok)
    /\ moved' = moved
    /\ hist' = [kind |-> "finish_close", w |-> s]
    /\ UNCHANGED <<all_widgets, buttons>>

\* WidgetManager._remove_selected_widget: QWidget.close() on the selected one
RemoveSelected(widget_id) ==
    /\ widget_id \in DOMAIN mgr
    /\ inst[mgr[widget_id]].visible
    /\ inst' = [inst EXCEPT ![mgr[widget_id]].visible = FALSE]
    /\ grab' = IF grab = mgr[widget_id] THEN 0 ELSE grab
    /\ clean' = FALSE
    /\ writes' = writes
    /\ moved' = moved
    /\ hist' = [kind |-> "remove_selected", w |-> mgr[widget_id]]
    /\ UNCHANGED <<all_widgets, mgr, config, disk, buttons>>

\* WidgetManager._close_all_widgets
CloseAll(sok) ==
    /\ inst' = [s \in DOMAIN inst |->
                  IF s \in MgrObjects(mgr) THEN [inst[s] EXCEPT !.visible = FALSE]
                  ELSE inst[s]]
    /\ mgr' = EmptyMgr
    /\ config' = [config EXCEPT !.widgets = << >>]
    /\ disk' = Save(config', disk, sok)
    /\ grab' = IF grab \in MgrObjects(mgr) THEN 0 ELSE grab
    /\ clean' = sok
    /\ writes' = Written(writes, sok)
    /\ moved' = moved
    /\ hist' = [kind |-> "close_all", ws |-> MgrObjects(mgr)]
    /\ UNCHANGED <<all_widgets, buttons>>

\* A variant of ToggleClickThroughObj that leaves the flag as it was when the
\* native call had no effect
ToggleOrRevertObj(w, nok) ==
    IF ~nok THEN w
    ELSE IF ~w.click_through
    THEN SetClickThroughStyle([w EXCEPT !.click_through = TRUE], nok)
    ELSE ClearClickThroughStyle([w EXCEPT !.click_through = FALSE], nok)

\* BaseWidget._toggle_click_through on the object
ToggleClickThroughObj(w, nok) ==
    IF ~w.click_through
    THEN SetClickThroughStyle([w EXCEPT !.click_through = TRUE], nok)
    ELSE ClearClickThroughStyle([w EXCEPT !.click_through = FALSE], nok)

\* "widget_config['click_through'] = value" on the first entry with this id
SaveClickThrough(entries, widget_id, value) ==
    LET i == FindEntry(entries, widget_id)
    IN  IF i = 0 THEN entries ELSE [entries EXCEPT ![i].click_through = value]

\* "widget_config['always_on_top'] = value" on the first entry with this id
SaveAlwaysOnTop(entries, widget_id, value) ==
    LET i == FindEntry(entries, widget_id)
    IN  IF i = 0 THEN entries ELSE [entries EXCEPT ![i].always_on_top = value]

\* The click-through state the properties compare
ClickThroughState(cfg, w) ==
    [click_through |-> w.click_through,
     persisted |-> PersistedClickThrough(cfg, w),
     ex_transparent |-> w.ex_transparent,
     ex_layered |-> w.ex_layered]

\* BaseWidget._toggle_click_through: the menu's click-through item
ToggleClickThrough(s, nok, sok) ==
    /\ s \in DOMAIN inst
    /\ inst[s].visible
    /\ LET w == ToggleClickThroughObj(inst[s], nok)
           cfg2 == [config EXCEPT
                      !.widgets = SaveClickThrough(@, w.widget_id, w.click_through)]
       IN  /\ inst' = [inst EXCEPT ![s] = w]
           /\ config' = cfg2
           /\ disk' = Save(cfg2, disk, sok)
           /\ hist' = IF ~inst[s].click_through
                      THEN [kind |-> "ct_on", w |-> s, nok |-> nok,
                            pre |-> ClickThroughState(config, inst[s])]
                      ELSE IF hist.kind = "ct_on" /\ hist.w = s
                      THEN [kind |-> "ct_roundtrip", w |-> s, nok |-> nok,
                            pre |-> hist.pre]
                      ELSE [kind |-> "ct_off", w |-> s, nok |-> nok]
    /\ clean' = sok
    /\ writes' = Written(writes, sok)
    /\ moved' = moved
    /\ UNCHANGED <<all_widgets, mgr, buttons, grab>>

\* setWindowFlags(...) then show(): Qt applies the style of the new flags to
\* the native window, so bits written with SetWindowLongW are gone and the
\* window is as a new one
Reflagged(w, layered) ==
    [w EXCEPT !.visible = TRUE, !.ex_transparent = FALSE, !.ex_layered = layered]

\* BaseWidget._bring_to_top on the object: the flag, the window flags, then
\* SetWindowPos(HWND_TOPMOST), whose result is not looked at
BringToTopObj(w, layered, nok) ==
    [Reflagged(w, layered) EXCEPT !.always_on_top = TRUE,
                                  !.topmost = IF nok THEN TRUE ELSE @]

\* BaseWidget._send_to_bottom on the object: SetWindowPos(HWND_NOTOPMOST)
SendToBottomObj(w, layered, nok) ==
    [Reflagged(w, layered) EXCEPT !.always_on_top = FALSE,
                                  !.topmost = IF nok THEN FALSE ELSE @]

\* BaseWidget._bring_to_top: the menu's item
BringToTop(s, layered, nok, sok) ==
    /\ s \in DOMAIN inst
    /\ inst[s].visible
    /\ inst' = [inst EXCEPT ![s] = BringToTopObj(@, layered, nok)]
    /\ config' = [config EXCEPT
                    !.widgets = SaveAlwaysOnTop(@, inst[s].widget_id, TRUE)]
    /\ disk' = Save(config', disk, sok)
    /\ clean' = sok
    /\ writes' = Written(writes, sok)
    /\ moved' = moved
    /\ hist' = [kind |-> "top", w |-> s, nok |-> nok]
    /\ UNCHANGED <<all_widgets, mgr, buttons, grab>>

\* BaseWidget._send_to_bottom: the menu's item
SendToBottom(s, layered, nok, sok) ==
    /\ s \in DOMAIN inst
    /\ inst[s].visible
    /\ inst' = [inst EXCEPT ![s] = SendToBottomObj(@, layered, nok)]
    /\ config' = [config EXCEPT
                    !.widgets = SaveAlwaysOnTop(@, inst[s].widget_id, FALSE)]
    /\ disk' = Save(config', disk, sok)
    /\ clean' = sok
    /\ writes' = Written(writes, sok)
    /\ moved' = moved
    /\ hist' = [kind |-> "bottom", w |-> s, nok |-> nok]
    /\ UNCHANGED <<all_widgets, mgr, buttons, grab>>

\* The entries after _disable_all_click_through handled the widgets in ids
RECURSIVE ClearedEntries(_, _)
ClearedEntries(entries, ids) ==
    IF ids = {} THEN entries
    ELSE LET i == CHOOSE j \in ids : TRUE
         IN  ClearedEntries(SaveClickThrough(entries, i, FALSE), ids \ {i})

\* A variant of DisabledObj that clears the native style and keeps the flag
StyleOnlyObj(w, nok) == ClearClickThroughStyle(w, nok)

\* The body of the loop of _disable_all_click_through on a widget whose
\* click_through is set: "widget.click_through = False", then the native style
DisabledObj(w, nok) == ClearClickThroughStyle([w EXCEPT !.click_through = FALSE], nok)

\* WidgetManager._disable_all_click_through: the tray menu's item
DisableAllClickThrough(nok, sok) ==
    LET hit == {s \in MgrObjects(mgr) : inst[s].click_through}
        cfg2 == [config EXCEPT
                   !.widgets = ClearedEntries(@, {inst[s].widget_id : s \in hit})]
    IN  /\ inst' = [s \in DOMAIN inst |->
                      IF s \in hit THEN DisabledObj(inst[s], nok) ELSE inst[s]]
        /\ config' = cfg2
        /\ disk' = IF hit # {} THEN Save(cfg2, disk, sok) ELSE disk
        /\ clean' = (hit # {} /\ sok)
        /\ writes' = IF hit # {} THEN Written(writes, sok) ELSE writes
        /\ moved' = moved
        /\ hist' = IF hist.kind = "ct_on" /\ hist.w \in hit
                   THEN [kind |-> "ct_roundtrip", w |-> hist.w, nok |-> nok,
                         pre |-> hist.pre]
                   ELSE [kind |-> "ct_off_all", hit |-> hit]
        /\ UNCHANGED <<all_widgets, mgr, buttons, grab>>

\* WidgetManager._on_opacity_changed: the slider (50..100) moved to value
OnOpacityChanged(value, sok) ==
    /\ value \in SliderMin..SliderMax
    /\ config' = [config EXCEPT !.widget_opacity = value]
    /\ disk' = Save(config', disk, sok)
    /\ inst' = [s \in DOMAIN inst |->
                  IF s \in MgrObjects(mgr) THEN [inst[s] EXCEPT !.opacity = value]
                  ELSE inst[s]]
    /\ clean' = sok
    /\ writes' = Written(writes, sok)
    /\ moved' = moved
    /\ hist' = NoHist
    /\ UNCHANGED <<all_widgets, mgr, buttons, grab>>

\* WidgetManager._on_snap_changed
OnSnapChanged(enabled, sok) ==
    /\ enabled # config.snap_enabled
    /\ config' = [config EXCEPT !.snap_enabled = enabled]
    /\ disk' = Save(config', disk, sok)
    /\ clean' = sok
    /\ writes' = Written(writes, sok)
    /\ moved' = moved
    /\ hist' = NoHist
    /\ UNCHANGED <<inst, all_widgets, mgr, buttons, grab>>

\* WidgetManager._on_threshold_changed
OnThresholdChanged(value, sok) ==
    /\ value # config.snap_threshold
    /\ config' = [config EXCEPT !.snap_threshold = value]
    /\ disk' = Save(config', disk, sok)
    /\ clean' = sok
    /\ writes' = Written(writes, sok)
    /\ moved' = moved
    /\ hist' = NoHist
    /\ UNCHANGED <<inst, all_widgets, mgr, buttons, grab>>

\* WidgetManager._import_config of the document in file: widgets and
\* widget_opacity are taken over (light_mode is not modelled), the
\* configuration is saved and _restore_widgets runs on top of the live widgets
ImportConfig(file, place, layered, sok) ==
    LET cfg2 == [config EXCEPT !.widgets = file[1].widgets,
                               !.widget_opacity = file[1].widget_opacity]
        st == RestoreWidgets([inst |-> inst, all_widgets |-> all_widgets, mgr |-> mgr],
                             cfg2, place, layered, TRUE)
    IN  /\ file # None
        /\ Len(inst) + RestoreCount(cfg2) <= MaxInst
        /\ config' = cfg2
        /\ disk' = Save(cfg2, disk, sok)
        /\ inst' = st.inst
        /\ all_widgets' = st.all_widgets
        /\ mgr' = st.mgr
        /\ clean' = sok
        /\ writes' = Written(writes, sok)
        /\ moved' = moved
        /\ hist' = NoHist
        /\ UNCHANGED <<buttons, grab>>

\* What the round trip compares for an object
Persisted(w) ==
    [x |-> w.x, y |-> w.y,
     content_width |-> w.content_width, content_height |-> w.content_height,
     opacity |-> w.opacity, click_through |-> w.click_through,
     always_on_top |-> w.always_on_top]

\* The process is quit and started again: StartProcess on the file
Restart(place, layered) ==
    LET st == StartProcess(disk, place, layered)
        kept == {i \in DOMAIN mgr : FindEntry(Load(disk).widgets, i) # 0}
    IN  /\ RestoreCount(Load(disk)) <= MaxInst
        /\ inst' = st.inst
        /\ all_widgets' = st.all_widgets
        /\ mgr' = st.mgr
        /\ config' = Load(disk)
        /\ buttons' = {}
        /\ grab' = 0
        /\ hist' = [kind |-> "restart", was_clean |-> clean,
                    pre |-> [i \in kept |-> Persisted(inst[mgr[i]])]]
        /\ clean' = FALSE
        /\ writes' = "none"
        /\ moved' = "none"
        /\ UNCHANGED disk

----------------------------------------------------------------------------
(* Mouse events.  Without mouse tracking a widget gets move events only      *)
(* while a button is held, and the widget pressed on keeps the mouse (grab)  *)
(* until every button is up.                                                 *)

\* Where a press lands, in window coordinates: on the card or on the handle
SpotPoint(w, spot) ==
    IF spot = "handle"
    THEN <<Width(w) - SHADOW_MARGIN - 8, Height(w) - SHADOW_MARGIN - 8>>
    ELSE IF spot = "edge"
    THEN <<Width(w) - SHADOW_MARGIN - resize_handle_size,
           Height(w) - SHADOW_MARGIN - resize_handle_size>>
    ELSE IF spot = "margin"
    THEN <<Width(w) - SHADOW_MARGIN, Height(w) - SHADOW_MARGIN - 8>>
    ELSE <<30, 30>>

\* BaseWidget.mousePressEvent
Press(s, button, spot) ==
    /\ s \in DOMAIN inst
    /\ inst[s].visible
    /\ button \notin buttons
    /\ grab \in {0, s}
    /\ LET local == SpotPoint(inst[s], spot)
           global == <<inst[s].x + local[1], inst[s].y + local[2]>>
       IN  inst' = [inst EXCEPT ![s] = MousePress(@, button, local, global)]
    /\ buttons' = buttons \cup {button}
    /\ grab' = s
    /\ clean' = FALSE
    /\ writes' = writes
    /\ moved' = IF button = "left" THEN "none" ELSE moved
    /\ hist' = [kind |-> "press", w |-> s, button |-> button,
                local |-> SpotPoint(inst[s], spot),
                idle |-> (buttons = {} /\ ~inst[s].resizing),
                pre |-> inst[s]]
    /\ UNCHANGED <<all_widgets, mgr, config, disk>>

\* What the last step that was not a pointer move did
Since ==
    IF hist.kind \in {"drag", "resize"} THEN hist.since
    ELSE IF hist.kind = "release" THEN <<"release", hist.button, hist.was>>
    ELSE <<hist.kind>>

\* The resize branch of mouseMoveEvent is taken
ResizeBranch(w) ==
    w.resizing /\ Truthy(w.resize_start_pos) /\ w.resize_start_size # None

\* The drag branch of mouseMoveEvent is taken (after the resize branch)
DragBranch(w, held) == "left" \in held /\ Truthy(w.drag_pos)

\* BaseWidget.mouseMoveEvent, resize branch: pointer at global position ptr
ResizeMove(s, ptr, sok) ==
    /\ s \in DOMAIN inst
    /\ grab = s /\ buttons # {}
    /\ ResizeBranch(inst[s])
    /\ LET w == inst[s]
           w2 == UpdateWidgetSize(w,
                     w.resize_start_size[1] + (ptr[1] - w.resize_start_pos[1]),
                     w.resize_start_size[2] + (ptr[2] - w.resize_start_pos[2]))
           cfg2 == [config EXCEPT !.widgets = SaveCustomSize(@, w2)]
       IN  /\ inst' = [inst EXCEPT ![s] = w2]
           /\ config' = cfg2
           /\ disk' = Save(cfg2, disk, sok)
    /\ clean' = sok
    /\ writes' = Written(writes, sok)
    /\ moved' = Moved("size")
    /\ hist' = [kind |-> "resize", w |-> s, ptr |-> ptr,
                since |-> Since,
                hooks |-> SizeChangedCalls(inst'[s])]
    /\ UNCHANGED <<all_widgets, mgr, buttons, grab>>

\* BaseWidget.mouseMoveEvent, drag branch: pointer at global position ptr
DragMove(s, ptr) ==
    /\ s \in DOMAIN inst
    /\ grab = s /\ buttons # {}
    /\ ~ResizeBranch(inst[s])
    /\ DragBranch(inst[s], buttons)
    /\ LET w == inst[s]
           new_pos == <<ptr[1] - w.drag_pos[1], ptr[2] - w.drag_pos[2]>>
       IN  /\ inst' = [inst EXCEPT ![s] = DragTo(inst, all_widgets, s, new_pos, config)]
           /\ hist' = [kind |-> "drag", w |-> s, new_pos |-> new_pos,
                       snap |-> Snap(inst, all_widgets, s, new_pos,
                                     config.snap_threshold),
                       since |-> Since]
    /\ clean' = FALSE
    /\ writes' = writes
    /\ moved' = Moved("position")
    /\ UNCHANGED <<all_widgets, mgr, config, disk, buttons, grab>>

\* BaseWidget.mouseReleaseEvent (any button)
Release(s, button, sok) ==
    /\ s \in DOMAIN inst
    /\ grab = s
    /\ button \in buttons
    /\ inst' = [inst EXCEPT ![s] = MouseRelease(@)]
    /\ config' = [config EXCEPT !.widgets = SavePosition(@, inst[s])]
    /\ disk' = Save(config', disk, sok)
    /\ buttons' = buttons \ {button}
    /\ grab' = IF buttons' = {} THEN 0 ELSE grab
    /\ clean' = sok
    /\ writes' = Written(writes, sok)
    /\ moved' = IF button = "left" THEN "none" ELSE moved
    /\ hist' = [kind |-> "release", w |-> s, button |-> button,
                was |-> IF inst[s].resizing THEN "Resizing"
                        ELSE IF DragBranch(inst[s], buttons) THEN "Dragging"
                        ELSE "Idle"]
    /\ UNCHANGED <<all_widgets, mgr>>

\* A button released after its widget was hidden: no widget handles it
ReleaseElsewhere(button) ==
    /\ grab = 0
    /\ button \in buttons
    /\ buttons' = buttons \ {button}
    /\ clean' = FALSE
    /\ writes' = writes
    /\ moved' = IF button = "left" THEN "none" ELSE moved
    /\ hist' = NoHist
    /\ UNCHANGED <<inst, all_widgets, mgr, config, disk, grab>>

----------------------------------------------------------------------------
(* The inputs the specifications draw from *)

Entry(widget_id, widget_type, size, position, click_through, always_on_top) ==
    [id |-> <<widget_id>>, type |-> widget_type, size |-> size,
     position |-> position, click_through |-> click_through,
     always_on_top |-> always_on_top,
     custom_width |-> None, custom_height |-> None]

Document(widgets, widget_opacity) ==
    <<[widgets |-> widgets, widget_opacity |-> widget_opacity,
       snap_enabled |-> TRUE, snap_threshold |-> DefaultThreshold]>>

\* One small clock
DocSmall ==
    Document(<<Entry("a", "ClockWidget", "small", <<400, 100>>, FALSE, FALSE)>>,
             DefaultOpacity)

\* A pinned click-through clock and a note
DocPair ==
    Document(<<Entry("a", "ClockWidget", "large", <<400, 100>>, TRUE, TRUE),
               Entry("b", "NotesWidget", "medium", <<900, 500>>, FALSE, FALSE)>>,
             DefaultOpacity)

\* A layout file written by hand, with widget_opacity 0.2
DocDim ==
    Document(<<Entry("a", "ClockWidget", "medium", <<400, 100>>, FALSE, FALSE)>>, 20)

\* Three medium widgets: a and b side by side with b lower, c far away
DocSnap ==
    Document(<<Entry("a", "ClockWidget", "medium", <<400, 100>>, FALSE, FALSE),
               Entry("b", "NotesWidget", "medium", <<410, 260>>, FALSE, FALSE),
               Entry("c", "ClockWidget", "medium", <<1200, 700>>, FALSE, FALSE)>>,
             DefaultOpacity)

\* An entry without "id"
NoIdEntry(widget_type, position) ==
    [Entry("", widget_type, "medium", position, FALSE, FALSE) EXCEPT !.id = None]

\* A hand-edited layout: an entry of an unknown kind, a clock, an entry
\* without id, and a note positioned far outside the screen
DocMixed ==
    Document(<<Entry("x", "StockWidget", "medium", <<300, 300>>, FALSE, FALSE),
               Entry("a", "ClockWidget", "medium", <<400, 100>>, FALSE, FALSE),
               NoIdEntry("ClockWidget", <<600, 300>>),
               Entry("b", "NotesWidget", "medium", <<5000, 5000>>, FALSE, FALSE)>>,
             DefaultOpacity)

\* The same entries in the opposite order
DocMixedRev ==
    Document(<<Entry("b", "NotesWidget", "medium", <<5000, 5000>>, FALSE, FALSE),
               NoIdEntry("ClockWidget", <<600, 300>>),
               Entry("a", "ClockWidget", "medium", <<400, 100>>, FALSE, FALSE),
               Entry("x", "StockWidget", "medium", <<300, 300>>, FALSE, FALSE)>>,
             DefaultOpacity)

MainEnv ==
    [docs |-> {None, DocSmall, DocPair},
     imports |-> {DocDim},
     ids |-> {"b"},
     pressed |-> {1},
     closed |-> {1},
     styled |-> {},
     places |-> {<<100, 100>>},
     layered |-> {TRUE},
     sok |-> {TRUE},
     nok |-> {TRUE},
     buttons |-> {"left"},
     spots |-> {"handle"},
     new_pos |-> {},
     sizes |-> {<<900, 700>>, <<50, 50>>, <<250, 220>>},
     opacities |-> {SliderMin},
     thresholds |-> {}]

SnapEnv ==
    [docs |-> {DocSnap},
     imports |-> {},
     ids |-> {},
     pressed |-> {3},
     closed |-> {2},
     styled |-> {},
     places |-> {<<100, 100>>},
     layered |-> {TRUE},
     sok |-> {TRUE},
     nok |-> {TRUE},
     buttons |-> {"left"},
     spots |-> {"body"},
     new_pos |-> {<<15, 300>>, <<157, 200>>, <<157, 600>>, <<650, 200>>,
                  <<1670, 830>>, <<420, 12>>, <<420, 345>>, <<900, 345>>},
     sizes |-> {},
     opacities |-> {},
     thresholds |-> {DefaultThreshold, 40}]

StyleEnv ==
    [docs |-> {None, DocPair},
     imports |-> {DocDim},
     ids |-> {"b"},
     pressed |-> {},
     closed |-> {1},
     styled |-> {1, 2},
     places |-> {<<100, 100>>},
     layered |-> BOOLEAN,
     sok |-> {TRUE},
     nok |-> {TRUE},
     buttons |-> {},
     spots |-> {},
     new_pos |-> {},
     sizes |-> {},
     opacities |-> {},
     thresholds |-> {}]

RestoreEnv ==
    [docs |-> {None, DocMixed, DocMixedRev},
     imports |-> {DocMixed, DocMixedRev},
     ids |-> {"c"},
     pressed |-> {},
     closed |-> {1, 2},
     styled |-> {},
     places |-> {<<100, 100>>},
     layered |-> {TRUE},
     sok |-> {TRUE},
     nok |-> {TRUE},
     buttons |-> {},
     spots |-> {},
     new_pos |-> {},
     sizes |-> {},
     opacities |-> {SliderMin},
     thresholds |-> {}]

\* One medium clock
DocSolo ==
    Document(<<Entry("a", "ClockWidget", "medium", <<400, 100>>, FALSE, FALSE)>>,
             DefaultOpacity)

\* Two click-through widgets, and a click-through note beside a plain clock
DocThrough ==
    Document(<<Entry("a", "ClockWidget", "medium", <<400, 100>>, TRUE, FALSE),
               Entry("b", "NotesWidget", "medium", <<900, 500>>, TRUE, FALSE)>>,
             DefaultOpacity)
DocThroughNote ==
    Document(<<Entry("a", "ClockWidget", "medium", <<400, 100>>, FALSE, FALSE),
               Entry("b", "NotesWidget", "small", <<900, 500>>, TRUE, TRUE)>>,
             DefaultOpacity)

\* Click-through toggled, disabled for all and restored at start, every
\* native call and every write succeeding
ThroughEnv ==
    [docs |-> {DocSolo, DocPair, DocThrough, DocThroughNote},
     imports |-> {},
     ids |-> {},
     pressed |-> {},
     closed |-> {},
     styled |-> {1, 2},
     places |-> {<<100, 100>>},
     layered |-> BOOLEAN,
     sok |-> {TRUE},
     nok |-> {TRUE},
     buttons |-> {},
     spots |-> {},
     new_pos |-> {},
     sizes |-> {},
     opacities |-> {},
     thresholds |-> {}]

\* One widget, both mouse buttons, presses on the card, on the handle and on
\* both sides of the handle's border, with the menu's items in between
GestureEnv ==
    [docs |-> {DocSolo},
     imports |-> {},
     ids |-> {},
     pressed |-> {1},
     closed |-> {1},
     styled |-> {1},
     places |-> {<<100, 100>>},
     layered |-> {TRUE},
     sok |-> {TRUE},
     nok |-> {TRUE},
     buttons |-> {"left", "right"},
     spots |-> {"body", "handle", "edge", "margin"},
     new_pos |-> {<<600, 300>>, <<15, 300>>},
     sizes |-> {<<250, 220>>, <<900, 700>>},
     opacities |-> {},
     thresholds |-> {}]

\* Two widgets that are closed in every way the program offers
CloseEnv ==
    [docs |-> {DocSolo, DocPair},
     imports |-> {},
     ids |-> {},
     pressed |-> {},
     closed |-> {1, 2},
     styled |-> {1, 2},
     places |-> {<<100, 100>>},
     layered |-> {TRUE},
     sok |-> {TRUE},
     nok |-> {TRUE},
     buttons |-> {},
     spots |-> {},
     new_pos |-> {},
     sizes |-> {},
     opacities |-> {},
     thresholds |-> {}]

\* Drags of c among a and b: candidates near a screen edge and a sibling on
\* the same axis and on different axes, near two siblings at once, and at
\* exactly the default threshold from the screen's left edge
EdgeEnv ==
    [docs |-> {DocSnap},
     imports |-> {},
     ids |-> {},
     pressed |-> {3},
     closed |-> {2},
     styled |-> {},
     places |-> {<<100, 100>>},
     layered |-> {TRUE},
     sok |-> {TRUE},
     nok |-> {TRUE},
     buttons |-> {"left"},
     spots |-> {"body"},
     new_pos |-> {<<420, 12>>, <<157, 12>>, <<157, 200>>, <<20, 300>>, <<19, 300>>,
                  <<650, 200>>, <<1670, 830>>, <<900, 345>>},
     sizes |-> {},
     opacities |-> {},
     thresholds |-> {DefaultThreshold, 40}]

\* Writes of the file and native calls that fail
FaultEnv ==
    [docs |-> {DocSmall, DocPair},
     imports |-> {},
     ids |-> {},
     pressed |-> {},
     closed |-> {1},
     styled |-> {1},
     places |-> {<<100, 100>>},
     layered |-> {TRUE},
     sok |-> BOOLEAN,
     nok |-> BOOLEAN,
     buttons |-> {},
     spots |-> {},
     new_pos |-> {},
     sizes |-> {},
     opacities |-> {SliderMin},
     thresholds |-> {}]

\* The pointer positions a move of object s is tried with: while resizing,
\* the points that request one of the sizes of env.sizes; else the points
\* that put the window at one of the candidate positions
Pointers(env, s) ==
    LET w == inst[s]
    IN  IF ResizeBranch(w)
        THEN {<<w.resize_start_pos[1] + (r[1] - w.resize_start_size[1]),
                w.resize_start_pos[2] + (r[2] - w.resize_start_size[2])>> :
                r \in env.sizes}
        ELSE IF w.drag_pos # None
        THEN {<<c[1] + w.drag_pos[1], c[2] + w.drag_pos[2]>> : c \in env.new_pos}
        ELSE {}

InitOf(env) ==
    \E file \in env.docs, place \in env.places, layered \in env.layered :
      LET st == StartProcess(file, place, layered)
      IN  /\ inst = st.inst
          /\ all_widgets = st.all_widgets
          /\ mgr = st.mgr
          /\ config = Load(file)
          /\ disk = file
          /\ buttons = {}
          /\ grab = 0
          /\ hist = NoHist
          /\ clean = FALSE
          /\ writes = "none"
          /\ moved = "none"

\* A press on a widget, and the release that ends it
PressOf(env) ==
    \/ \E s \in DOMAIN inst, button \in env.buttons, spot \in env.spots :
         s \in env.pressed /\ Press(s, button, spot)
    \/ \E s \in DOMAIN inst, button \in env.buttons, sok \in env.sok :
         Release(s, button, sok)
    \/ \E button \in env.buttons : ReleaseElsewhere(button)

\* Pointer moves while the resize handle is held
ResizeOf(env) ==
    \E s \in DOMAIN inst, sok \in env.sok :
      \E ptr \in Pointers(env, s) : ResizeMove(s, ptr, sok)

\* Pointer moves while the body is held
DragOf(env) ==
    \E s \in DOMAIN inst : \E ptr \in Pointers(env, s) : DragMove(s, ptr)

\* Closing
CloseOf(env) ==
    \/ \E s \in DOMAIN inst \cap env.closed, sok \in env.sok : OnClose(s, sok)
    \/ \E s \in DOMAIN inst, sok \in env.sok : FinishClose(s, sok)
    \/ \E widget_id \in DOMAIN mgr :
         mgr[widget_id] \in env.closed /\ RemoveSelected(widget_id)
    \/ \E sok \in env.sok : CloseAll(sok)

\* The snap switch of the settings page
SnapSwitchOf(env) ==
    \E enabled \in BOOLEAN, sok \in env.sok : OnSnapChanged(enabled, sok)

\* Widgets added and imported, the process restarted
LayoutOf(env) ==
    \/ \E widget_id \in env.ids, place \in env.places, layered \in env.layered,
          sok \in env.sok :
         AddWidget(widget_id, "ClockWidget", place, layered, sok)
    \/ \E file \in env.imports, place \in env.places, layered \in env.layered,
          sok \in env.sok :
         ImportConfig(file, place, layered, sok)
    \/ \E place \in env.places, layered \in env.layered : Restart(place, layered)

\* The click-through and z-order items of the menus
StyleOf(env) ==
    \/ \E s \in DOMAIN inst \cap env.styled, nok \in env.nok, sok \in env.sok :
         ToggleClickThrough(s, nok, sok)
    \/ \E s \in DOMAIN inst \cap env.styled, layered \in env.layered,
          nok \in env.nok, sok \in env.sok :
         BringToTop(s, layered, nok, sok)
    \/ \E s \in DOMAIN inst \cap env.styled, layered \in env.layered,
          nok \in env.nok, sok \in env.sok :
         SendToBottom(s, layered, nok, sok)
    \/ \E nok \in env.nok, sok \in env.sok : DisableAllClickThrough(nok, sok)

\* The opacity slider of the settings page
OpacityOf(env) ==
    \E value \in env.opacities, sok \in env.sok : OnOpacityChanged(value, sok)

\* The threshold slider of the settings page
ThresholdOf(env) ==
    \E value \in env.thresholds, sok \in env.sok : OnThresholdChanged(value, sok)

\* The click-through items alone: the widget menu's toggle and the tray
\* menu's "disable all"
ClickThroughOf(env) ==
    \/ \E s \in DOMAIN inst \cap env.styled, nok \in env.nok, sok \in env.sok :
         ToggleClickThrough(s, nok, sok)
    \/ \E nok \in env.nok, sok \in env.sok : DisableAllClickThrough(nok, sok)

\* The process is quit and started again on the persisted layout
RestartOf(env) ==
    \E place \in env.places, layered \in env.layered : Restart(place, layered)

\* Layout and persistence: widgets restored, added, imported, resized, closed
Init == InitOf(MainEnv)
Next ==
    \/ PressOf(MainEnv) \/ ResizeOf(MainEnv) \/ CloseOf(MainEnv)
    \/ LayoutOf(MainEnv) \/ OpacityOf(MainEnv)
Spec == Init /\ [][Next]_vars

\* Click-through: toggles, "disable all" and restarts
InitThrough == InitOf(ThroughEnv)
NextThrough == ClickThroughOf(ThroughEnv) \/ RestartOf(ThroughEnv)
SpecThrough == InitThrough /\ [][NextThrough]_vars

\* Dragging with snapping among three widgets
InitSnap == InitOf(SnapEnv)
NextSnap ==
    \/ PressOf(SnapEnv) \/ DragOf(SnapEnv) \/ CloseOf(SnapEnv)
    \/ SnapSwitchOf(SnapEnv) \/ ThresholdOf(SnapEnv)
SpecSnap == InitSnap /\ [][NextSnap]_vars

\* Click-through and z-order
InitStyle == InitOf(StyleEnv)
NextStyle == StyleOf(StyleEnv) \/ LayoutOf(StyleEnv) \/ CloseOf(StyleEnv)
SpecStyle == InitStyle /\ [][NextStyle]_vars

\* Restoring hand-edited layouts
InitRestore == InitOf(RestoreEnv)
NextRestore == LayoutOf(RestoreEnv) \/ CloseOf(RestoreEnv) \/ OpacityOf(RestoreEnv)
SpecRestore == InitRestore /\ [][NextRestore]_vars

\* Failing writes and failing native calls
InitFault == InitOf(FaultEnv)
NextFault == StyleOf(FaultEnv) \/ CloseOf(FaultEnv) \/ OpacityOf(FaultEnv)
SpecFault == InitFault /\ [][NextFault]_vars

\* Drags whose candidate meets several snap targets
InitEdge == InitOf(EdgeEnv)
NextEdge ==
    \/ PressOf(EdgeEnv) \/ DragOf(EdgeEnv) \/ CloseOf(EdgeEnv)
    \/ SnapSwitchOf(EdgeEnv) \/ ThresholdOf(EdgeEnv)
SpecEdge == InitEdge /\ [][NextEdge]_vars

\* Gestures with two buttons on one widget
InitGesture == InitOf(GestureEnv)
NextGesture ==
    \/ PressOf(GestureEnv) \/ ResizeOf(GestureEnv) \/ DragOf(GestureEnv)
    \/ CloseOf(GestureEnv) \/ StyleOf(GestureEnv)
SpecGesture == InitGesture /\ [][NextGesture]_vars

\* Closing while the process keeps running: the fade-out animation started by
\* _on_close ends after 150 ms and the event loop then runs _finish_close
InitClose == InitOf(CloseEnv)
NextClose == CloseOf(CloseEnv) \/ StyleOf(CloseEnv)
FairClose ==
    \A s \in 1..MaxInst : WF_vars(\E sok \in CloseEnv.sok : FinishClose(s, sok))
SpecClose == InitClose /\ [][NextClose]_vars /\ FairClose

----------------------------------------------------------------------------
(* Properties *)

\* The registered widgets: the objects in BaseWidget._all_widgets
Registered == {all_widgets[i] : i \in DOMAIN all_widgets}

\* The object the last step resized, and the size its pointer move asked for
Resized == inst[hist.w]
Requested ==
    <<Resized.resize_start_size[1] + (hist.ptr[1] - Resized.resize_start_pos[1]),
      Resized.resize_start_size[2] + (hist.ptr[2] - Resized.resize_start_pos[2])>>

\* C1: every registered widget has a content width in 200..800 and a content
\* height in 150..600, from creation or restore on, for every size class.
\* (Violated: a widget of size class "small" is created 160 x 160.)
SizeInRange ==
    \A s \in Registered :
        /\ inst[s].content_width \in 200..800
        /\ inst[s].content_height \in 150..600

\* C2: after a pointer move while resizing, with anchor size (w0, h0) taken
\* at the press and pointer delta (dx, dy) from the press point, the content
\* size is exactly (min(800, max(200, w0 + dx)), min(600, max(150, h0 + dy))).
ResizeClamped ==
    hist.kind = "resize" =>
        /\ Resized.content_width = Min(800, Max(200, Requested[1]))
        /\ Resized.content_height = Min(600, Max(150, Requested[2]))

\* A request of 900 x 700 has given 800 x 600
ResizeClampedHigh ==
    /\ hist.kind = "resize"
    /\ Requested = <<900, 700>>
    /\ Resized.content_width = 800 /\ Resized.content_height = 600

\* C3: no two live registered widgets have the same id.
\* (Violated: an import while the widgets are live creates each one again.)
UniqueIds ==
    \A s, t \in Registered :
        (s # t /\ inst[s].visible /\ inst[t].visible)
            => inst[s].widget_id # inst[t].widget_id

\* C8: a restart right after a save gives every widget whose id is in the
\* file its position, content size, opacity, click-through flag and
\* always-on-top flag as they were.
\* (Violated: the content size of a resized widget is not restored.)
RoundTrip ==
    (hist.kind = "restart" /\ hist.was_clean) =>
        \A i \in DOMAIN hist.pre :
            i \in DOMAIN mgr /\ Persisted(inst[mgr[i]]) = hist.pre[i]

\* C9: config.widget_opacity and every registered widget's opacity are in
\* 0.5 .. 1.0 (50 .. 100 percent).
\* (Violated: an imported file's widget_opacity is taken as it is.)
OpacityInRange ==
    /\ config.widget_opacity \in 50..100
    /\ \A s \in Registered : inst[s].opacity \in 50..100

Dragging == hist.kind = "drag" /\ config.snap_enabled
Dragged == inst[hist.w]
Candidate == hist.new_pos
Siblings == {o \in Registered \ {hist.w} : inst[o].visible}
Near(a, b) == Abs(a - b) < config.snap_threshold

\* The candidate's vertical extent y .. y + height meets o's rows, and the
\* candidate's horizontal extent x .. x + width meets o's columns
YOverlaps(o) ==
    /\ Candidate[2] + Height(Dragged) >= inst[o].y
    /\ Candidate[2] <= inst[o].y + Height(inst[o]) - 1
XOverlaps(o) ==
    /\ Candidate[1] + Width(Dragged) >= inst[o].x
    /\ Candidate[1] <= inst[o].x + Width(inst[o]) - 1

\* The closed intervals y .. y + height (x .. x + width) of the candidate and
\* of o have a point in common
YRangesIntersect(o) ==
    /\ Candidate[2] <= inst[o].y + Height(inst[o])
    /\ inst[o].y <= Candidate[2] + Height(Dragged)
XRangesIntersect(o) ==
    /\ Candidate[1] <= inst[o].x + Width(inst[o])
    /\ inst[o].x <= Candidate[1] + Width(Dragged)

\* o gives the drag an x (a y): one of its two edges is near and the
\* perpendicular extents meet
SnapsX(o) ==
    /\ \/ Near(Candidate[1] + Width(Dragged), inst[o].x)
       \/ Near(Candidate[1], inst[o].x + Width(inst[o]) - 1)
    /\ YOverlaps(o)
SnapsY(o) ==
    /\ \/ Near(Candidate[2] + Height(Dragged), inst[o].y)
       \/ Near(Candidate[2], inst[o].y + Height(inst[o]) - 1)
    /\ XOverlaps(o)

\* The screen's edges: left and top, and the last column and row
ScreenLeft == Left(screen_rect)
ScreenTop == Top(screen_rect)
ScreenRight == Right(screen_rect)
ScreenBottom == Bottom(screen_rect)

\* t comes after o in BaseWidget._all_widgets
After(o, t) ==
    \E i, j \in DOMAIN all_widgets :
        i < j /\ all_widgets[i] = o /\ all_widgets[j] = t

\* C4 (as stated): with snapping on, a candidate x near the screen's left
\* edge gives x = left, a candidate right edge near the screen's right edge
\* gives x = right - width, and likewise for top and bottom.
\* (Violated: a sibling's snap replaces the screen edge's.)
ScreenEdgeSnap ==
    Dragging =>
        /\ Near(Candidate[1], ScreenLeft) => Dragged.x = ScreenLeft
        /\ Near(Candidate[1] + Width(Dragged), ScreenRight)
              => Dragged.x = ScreenRight - Width(Dragged)
        /\ Near(Candidate[2], ScreenTop) => Dragged.y = ScreenTop
        /\ Near(Candidate[2] + Height(Dragged), ScreenBottom)
              => Dragged.y = ScreenBottom - Height(Dragged)

\* C4 (amended): the same on each axis where no sibling gives a snap, the
\* left and top edges going before the right and bottom ones.
ScreenEdgeSnapAlone ==
    Dragging =>
        /\ (\A o \in Siblings : ~SnapsX(o)) =>
             /\ Near(Candidate[1], ScreenLeft) => Dragged.x = ScreenLeft
             /\ (/\ ~Near(Candidate[1], ScreenLeft)
                 /\ Near(Candidate[1] + Width(Dragged), ScreenRight))
                   => Dragged.x = ScreenRight - Width(Dragged)
        /\ (\A o \in Siblings : ~SnapsY(o)) =>
             /\ Near(Candidate[2], ScreenTop) => Dragged.y = ScreenTop
             /\ (/\ ~Near(Candidate[2], ScreenTop)
                 /\ Near(Candidate[2] + Height(Dragged), ScreenBottom))
                   => Dragged.y = ScreenBottom - Height(Dragged)

\* A candidate at x = 15 was put at x = 0
SnappedToLeftEdge ==
    /\ Dragging
    /\ Candidate[1] = 15 /\ Dragged.x = 0

\* C5 (as stated): with snapping on, a candidate right edge near the left
\* edge of a visible sibling S whose rows the candidate's extent meets gives
\* x = S.left - width.  (Violated: a later sibling's snap replaces it.)
SiblingSnapRight ==
    Dragging =>
        \A o \in Siblings :
            (Near(Candidate[1] + Width(Dragged), inst[o].x) /\ YOverlaps(o))
                => Dragged.x = inst[o].x - Width(Dragged)

\* C5 (amended): the same when no sibling later in the list gives an x.
SiblingSnapRightLast ==
    Dragging =>
        \A o \in Siblings :
            (/\ Near(Candidate[1] + Width(Dragged), inst[o].x)
             /\ YOverlaps(o)
             /\ \A t \in Siblings : After(o, t) => ~SnapsX(t))
                => Dragged.x = inst[o].x - Width(Dragged)

\* The candidate's right edge at 397 was put against the widget at x = 400
SnappedToSibling ==
    /\ Dragging
    /\ Candidate[1] + Width(Dragged) = 397
    /\ \E o \in Siblings : inst[o].x = 400 /\ YOverlaps(o)
    /\ Dragged.x + Width(Dragged) = 400

\* C6: a sibling gives a drag no x when the candidate's vertical extent and
\* the sibling's do not intersect, and no y when the horizontal extents do
\* not intersect, however near its edges are.
NoSnapWithoutOverlap ==
    hist.kind = "drag" =>
        /\ hist.snap.src_x # 0 => YRangesIntersect(hist.snap.src_x)
        /\ hist.snap.src_y # 0 => XRangesIntersect(hist.snap.src_y)

\* A sibling's left edge was near, its rows were not met, and x stayed
NearButApart ==
    /\ Dragging
    /\ \E o \in Siblings :
          /\ Near(Candidate[1] + Width(Dragged), inst[o].x)
          /\ ~YRangesIntersect(o)
    /\ hist.snap.src_x = 0
    /\ Dragged.x = Candidate[1]

\* C7: a drag never snaps to a widget that is out of the list (its close
\* button was used, its fade-out may still run) or hidden (closed from the
\* manager).
NoSnapToClosed ==
    hist.kind = "drag" =>
        /\ hist.snap.src_x # 0 => hist.snap.src_x \in Siblings
        /\ hist.snap.src_y # 0 => hist.snap.src_y \in Siblings

\* A widget still fading out was near and level, and gave no snap
NearFadingOut ==
    /\ Dragging
    /\ \E o \in DOMAIN inst :
          /\ inst[o].closing /\ inst[o].visible /\ o \notin Registered
          /\ Near(Candidate[1] + Width(Dragged), inst[o].x)
          /\ YOverlaps(o)
          /\ hist.snap.src_x # o
          /\ Dragged.x # inst[o].x - Width(Dragged)

-----------------------------------------------------------------------------
(* Click-through: setting the value an instance already has *)

\* A step of the tray menu's "disable all click-through"
DisableAllStep == \E nok \in BOOLEAN, sok \in BOOLEAN : DisableAllClickThrough(nok, sok)

\* The objects the manager enumerates whose click_through is already FALSE
AlreadyOff == {s \in MgrObjects(mgr) : ~inst[s].click_through}

\* C11: requesting click-through FALSE is idempotent. A step of "disable all"
\* leaves every enumerated instance with the flag FALSE; an instance whose flag
\* was already FALSE keeps its object (flag and native style) and its persisted
\* value; and when every enumerated flag was already FALSE (as it is after a
\* first application) the step changes no object, no entry and not the file.
ClickThroughOffIdempotent ==
    [][DisableAllStep =>
         /\ \A s \in MgrObjects(mgr) : ~inst'[s].click_through
         /\ \A s \in AlreadyOff :
              /\ inst'[s] = inst[s]
              /\ PersistedClickThrough(config', inst[s])
                   = PersistedClickThrough(config, inst[s])
         /\ (AlreadyOff = MgrObjects(mgr) => UNCHANGED <<inst, config, disk>>)]_vars

\* C11 witness: "disable all" ran on a manager whose instances all had the
\* flag FALSE already
DisabledAgain ==
    /\ hist.kind = "ct_off_all"
    /\ hist.hit = {}
    /\ MgrObjects(mgr) # {}

-----------------------------------------------------------------------------
(* Restoring a layout with malformed entries *)

\* An entry is well-formed: a known kind, an id, a position on the screen
WellFormed(e) ==
    /\ WIDGET_CLASSES(e.type)
    /\ e.id # None /\ e.id # <<"">>
    /\ Len(e.position) >= 2 /\ Contains(screen_rect, e.position)

\* The ids of the well-formed entries of a list
WellFormedIds(entries) ==
    {entries[i].id[1] : i \in {j \in 1..Len(entries) : WellFormed(entries[j])}}

\* C12: after a start of the process on a persisted layout, the manager
\* holds an instance for exactly the well-formed entries: every entry of an
\* unknown kind, without id or with a position outside the screen is skipped,
\* every other one is restored, in whatever order the entries are.
RestoreSkipsMalformed ==
    hist.kind = "restart" => DOMAIN mgr = WellFormedIds(config.widgets)

-----------------------------------------------------------------------------
(* Failures of the file write and of the native calls *)

\* C13: a failed write of config.save() is swallowed and rolls nothing back,
\* and every save writes the whole configuration: once a save has succeeded
\* after a failed one, the file holds exactly the configuration in memory,
\* whatever was changed while the writes failed.
SaveRecovers == writes = "recovered" => disk = <<config>>

\* C13 witness: a save succeeded after a failed one, and the configuration it
\* wrote has widgets and a widget_opacity that is not the default
SavedAfterFailure ==
    /\ writes = "recovered"
    /\ config.widgets # << >>
    /\ config.widget_opacity # DefaultOpacity

\* The persisted always_on_top of an object: << >> without an entry
PersistedAlwaysOnTop(cfg, w) ==
    LET i == FindEntry(cfg.widgets, w.widget_id)
    IN  IF i = 0 THEN None ELSE <<cfg.widgets[i].always_on_top>>

\* The value the last step requested: of click_through, of always_on_top
RequestedClickThrough == hist.kind = "ct_on"
RequestedOnTop == hist.kind = "top"

\* C14: when the native call of a click-through toggle or of a z-order change
\* has no effect, the object's flag still holds the requested value, the
\* entry of the widget (when the list has one) holds it too, and the save
\* that follows, when its write succeeds, puts the list into the file.
StyleFailureIgnored ==
    /\ (hist.kind \in {"ct_on", "ct_off", "ct_roundtrip"} /\ ~hist.nok) =>
          /\ inst[hist.w].click_through = RequestedClickThrough
          /\ PersistedClickThrough(config, inst[hist.w])
                \in {None, <<RequestedClickThrough>>}
          /\ (clean => disk = <<config>>)
    /\ (hist.kind \in {"top", "bottom"} /\ ~hist.nok) =>
          /\ inst[hist.w].always_on_top = RequestedOnTop
          /\ PersistedAlwaysOnTop(config, inst[hist.w]) \in {None, <<RequestedOnTop>>}
          /\ (clean => disk = <<config>>)

\* C14 witness: click-through was switched on, the native call had no effect
\* (the window is not transparent), and the file holds the entry with TRUE
ToggledWithoutStyle ==
    /\ hist.kind = "ct_on" /\ ~hist.nok
    /\ ~inst[hist.w].ex_transparent
    /\ clean
    /\ PersistedClickThrough(Load(disk), inst[hist.w]) = <<TRUE>>

-----------------------------------------------------------------------------
(* The life of an instance: registered, closing, gone *)

\* Object s is open: shown and not fading out
Open(s) == s \in DOMAIN inst /\ inst[s].visible /\ ~inst[s].closing

\* Object s is fading out after its own close control was used
FadingOut(s) == s \in DOMAIN inst /\ inst[s].closing

\* Object s is gone: not in _all_widgets, not in the manager's dict, and no
\* entry with its id in config.widgets nor in the file
Gone(s) ==
    /\ s \in DOMAIN inst
    /\ s \notin Registered
    /\ s \notin MgrObjects(mgr)
    /\ FindEntry(config.widgets, inst[s].widget_id) = 0
    /\ FindEntry(Load(disk).widgets, inst[s].widget_id) = 0

\* C15: every open instance is in the registry, and an instance closed by
\* its own close control is, once the fade-out has ended, in no registry: not
\* among the siblings, not in the manager's enumeration, not in the persisted
\* widget list.
ClosedGoesAway ==
    /\ [](\A s \in 1..MaxInst : Open(s) => s \in Registered)
    /\ \A s \in 1..MaxInst : FadingOut(s) ~> Gone(s)

\* C15 witness: the fade-out of an object has just ended while another widget
\* is still open, and the object is gone
FadedOut ==
    /\ hist.kind = "finish_close"
    /\ Gone(hist.w)
    /\ \E s \in DOMAIN inst : Open(s)

-----------------------------------------------------------------------------
(* What the handlers save *)

\* The last step was a release, a close, a click-through toggle or a z-order
\* change of an instance, and the write of its config.save() succeeded
SavedBySettle == hist.kind \in {"release", "close"} /\ clean
SavedByClickThrough == hist.kind \in {"ct_on", "ct_off", "ct_roundtrip"} /\ clean
SavedByZOrder == hist.kind \in {"top", "bottom"} /\ clean

\* The entry of the acting instance in the file, << >> when there is none
ActingEntry ==
    LET i == FindEntry(Load(disk).widgets, inst[hist.w].widget_id)
    IN  IF i = 0 THEN None ELSE <<Load(disk).widgets[i]>>

-----------------------------------------------------------------------------
(* The gesture state machine of one window *)

\* p, in window coordinates, is inside the 16 x 16 square whose bottom-right
\* corner is the window's, inset by the shadow margin
InHandleSquare(w, p) ==
    /\ p[1] >= Width(w) - SHADOW_MARGIN - 16 /\ p[1] < Width(w) - SHADOW_MARGIN
    /\ p[2] >= Height(w) - SHADOW_MARGIN - 16 /\ p[2] < Height(w) - SHADOW_MARGIN

\* The last step was a press on a window with no button held and no resize
\* going on
PressedFromIdle == hist.kind = "press" /\ hist.idle

\* The captured state of an object
Captured(w) ==
    <<w.resizing, w.resize_start_pos, w.resize_start_size, w.drag_pos>>

\* After a press from Idle: a left press inside the handle square has set
\* resizing with the content size as anchor, a left press elsewhere has set
\* the offset between pointer and window origin, any other press nothing
PressFromIdleCaptures ==
    PressedFromIdle =>
      LET pre == hist.pre
          now == inst[hist.w]
          ptr == <<pre.x + hist.local[1], pre.y + hist.local[2]>>
      IN  IF hist.button = "left" /\ InHandleSquare(pre, hist.local)
          THEN /\ now.resizing
               /\ now.resize_start_size = <<pre.content_width, pre.content_height>>
               /\ now.resize_start_pos = ptr
               /\ now.drag_pos = pre.drag_pos
          ELSE IF hist.button = "left"
          THEN /\ ~now.resizing
               /\ now.drag_pos = <<ptr[1] - pre.x, ptr[2] - pre.y>>
               /\ now.resize_start_size = None
          ELSE now = pre

\* With no button held, a step that changes what an object has captured is a
\* left press
CapturedOnlyByPress ==
    (buttons = {} /\ \E s \in DOMAIN inst : Captured(inst'[s]) # Captured(inst[s]))
      => (hist'.kind = "press" /\ hist'.button = "left")

\* C17: from Idle, a left press inside the handle square enters Resizing with
\* the content size as anchor, a left press anywhere else in the window
\* enters Dragging with the offset between pointer and origin, and nothing
\* else takes the window out of Idle.
IdleTransitions == []PressFromIdleCaptures /\ [][CapturedOnlyByPress]_vars

\* C17 witness: a left press from Idle on the top-left pixel of the handle
\* square started a resize
PressedOnHandleEdge ==
    /\ PressedFromIdle /\ hist.button = "left"
    /\ hist.local = <<Width(hist.pre) - SHADOW_MARGIN - 16,
                      Height(hist.pre) - SHADOW_MARGIN - 16>>
    /\ inst[hist.w].resizing

\* C18: drag and resize exclude each other within one window: in one gesture,
\* from the press of the left button to its release, the pointer moves change
\* only the position or only the size, whatever gestures came before and
\* whatever other buttons are pressed and released meanwhile.
OneKindPerGesture == moved # "both"

\* The last step was a release that found the window dragged or resized
Settled == hist.kind = "release" /\ hist.was \in {"Dragging", "Resizing"}

\* No pointer move has changed position or size since the left button was
\* released, nor since a release that ended a resize, without a press between
NoMoveAfterRelease ==
    hist.kind \in {"drag", "resize"} =>
      /\ hist.since \notin {<<"release", "left", was>> : was \in {"Dragging", "Resizing"}}
      /\ hist.since \notin {<<"release", button, "Resizing">> : button \in {"left", "right"}}

\* C19: after a pointer-up in Dragging or Resizing the window is Idle: the
\* snap indicator is absent, the drag offset, the resize press point and the
\* resize anchor are released, and no pointer move changes position or size
\* before the next pointer-down.
IdleAfterRelease ==
    /\ Settled =>
          /\ inst[hist.w].snap_indicator_rect = None
          /\ ~inst[hist.w].resizing
          /\ inst[hist.w].drag_pos = None
          /\ inst[hist.w].resize_start_pos = None
          /\ inst[hist.w].resize_start_size = None
    /\ NoMoveAfterRelease

\* The position the widget list entries holds for the id of object s
EntryPosition(entries, s) ==
    LET i == FindEntry(entries, inst[s].widget_id)
    IN  IF i = 0 THEN None ELSE <<entries[i].position>>

\* C20: a window closed while it is dragged (after the press and pointer
\* moves, before the release) does not get the position it has reached
\* written to the file: the close leaves the persisted position as it was.
MidDragNotPersisted ==
    (hist.kind = "close" /\ hist.mid_drag) =>
      EntryPosition(Load(disk).widgets, hist.w) = EntryPosition(hist.pre, hist.w)

-----------------------------------------------------------------------------
(* Snapping: which target wins *)

\* The x (the y) a snap to sibling o gives: against o's left (top) edge when
\* the candidate's right (bottom) edge is near it, else at o's right (bottom)
SiblingX(o) ==
    IF Near(Candidate[1] + Width(Dragged), inst[o].x)
    THEN inst[o].x - Width(Dragged)
    ELSE Right(Geometry(inst[o]))
SiblingY(o) ==
    IF Near(Candidate[2] + Height(Dragged), inst[o].y)
    THEN inst[o].y - Height(Dragged)
    ELSE Bottom(Geometry(inst[o]))

\* The x (the y) the screen edges alone give the candidate
ScreenX ==
    IF Near(Candidate[1], ScreenLeft) THEN ScreenLeft
    ELSE IF Near(Candidate[1] + Width(Dragged), ScreenRight)
    THEN ScreenRight - Width(Dragged)
    ELSE Candidate[1]
ScreenY ==
    IF Near(Candidate[2], ScreenTop) THEN ScreenTop
    ELSE IF Near(Candidate[2] + Height(Dragged), ScreenBottom)
    THEN ScreenBottom - Height(Dragged)
    ELSE Candidate[2]

\* C21: on each axis a qualifying sibling overrides the screen edge: when
\* some sibling gives an x, the x of the window is one a qualifying sibling
\* gives, whether or not a screen edge is near too; and an axis on which no
\* sibling qualifies keeps the screen-edge result, whatever siblings gave on
\* the other axis.
SiblingOverridesScreen ==
    Dragging =>
        /\ (\E o \in Siblings : SnapsX(o)) =>
              \E o \in Siblings : SnapsX(o) /\ Dragged.x = SiblingX(o)
        /\ (\E o \in Siblings : SnapsY(o)) =>
              \E o \in Siblings : SnapsY(o) /\ Dragged.y = SiblingY(o)
        /\ (\A o \in Siblings : ~SnapsX(o)) => Dragged.x = ScreenX
        /\ (\A o \in Siblings : ~SnapsY(o)) => Dragged.y = ScreenY

\* C21 witness: the candidate's top was near the screen's top and its bottom
\* near a sibling's top: y is the sibling's
SiblingBeatScreenTop ==
    /\ Dragging
    /\ Near(Candidate[2], ScreenTop)
    /\ \E o \in Siblings : SnapsY(o) /\ Dragged.y = SiblingY(o)
    /\ Dragged.y # ScreenTop

\* A sibling gave the x while the screen's top gave the y
SiblingXScreenY ==
    /\ Dragging
    /\ \E o \in Siblings : SnapsX(o) /\ Dragged.x = SiblingX(o)
    /\ \A o \in Siblings : ~SnapsY(o)
    /\ Near(Candidate[2], ScreenTop) /\ Dragged.y = ScreenTop

\* C22: when several siblings qualify on an axis, the coordinate is the one
\* given by the qualifying sibling that comes last in BaseWidget._all_widgets
\* (the order of registration), whichever of them is nearest.
LastSiblingWins ==
    Dragging =>
        \A o \in Siblings :
            /\ (SnapsX(o) /\ \A t \in Siblings : After(o, t) => ~SnapsX(t))
                  => Dragged.x = SiblingX(o)
            /\ (SnapsY(o) /\ \A t \in Siblings : After(o, t) => ~SnapsY(t))
                  => Dragged.y = SiblingY(o)

\* C22 witness: two siblings qualified on x, the earlier one nearer than the
\* later one, and the x is the later one's
FartherLaterSiblingWon ==
    /\ Dragging
    /\ \E o, t \in Siblings :
          /\ After(o, t) /\ SnapsX(o) /\ SnapsX(t)
          /\ Abs(Candidate[1] + Width(Dragged) - inst[o].x)
               < Abs(Candidate[1] + Width(Dragged) - inst[t].x)
          /\ Dragged.x = SiblingX(t)
          /\ Dragged.x # SiblingX(o)

-----------------------------------------------------------------------------
(* The snap indicator *)

\* The candidate matches a screen edge or a qualifying sibling on x (on y)
XMatched ==
    \/ Near(Candidate[1], ScreenLeft)
    \/ Near(Candidate[1] + Width(Dragged), ScreenRight)
    \/ \E o \in Siblings : SnapsX(o)
YMatched ==
    \/ Near(Candidate[2], ScreenTop)
    \/ Near(Candidate[2] + Height(Dragged), ScreenBottom)
    \/ \E o \in Siblings : SnapsY(o)

\* The strips 3 pixels thick along the four edges of the dragged window, in
\* window coordinates
EdgeStrips ==
    {QRect(0, 0, IndicatorThickness, Height(Dragged)),
     QRect(Width(Dragged) - IndicatorThickness, 0,
           IndicatorThickness, Height(Dragged)),
     QRect(0, 0, Width(Dragged), IndicatorThickness),
     QRect(0, Height(Dragged) - IndicatorThickness,
           Width(Dragged), IndicatorThickness)}

\* C23: after every drag move the snap indicator is present exactly when
\* snapping is enabled and an axis snapped, to a screen edge or to a sibling,
\* and when present it is a strip 3 pixels thick along an edge of the window.
IndicatorIffSnapped ==
    hist.kind = "drag" =>
        /\ (Dragged.snap_indicator_rect # None)
              <=> (config.snap_enabled /\ (XMatched \/ YMatched))
        /\ Dragged.snap_indicator_rect # None
              => Dragged.snap_indicator_rect \in EdgeStrips

\* The part of C23 that holds: a drag move on which no sibling qualifies
\* shows the indicator exactly when a screen edge matched, as such a strip
IndicatorOnScreenSnap ==
    (Dragging /\ \A o \in Siblings : ~SnapsX(o) /\ ~SnapsY(o)) =>
        /\ (Dragged.snap_indicator_rect # None) <=> (XMatched \/ YMatched)
        /\ Dragged.snap_indicator_rect # None
              => Dragged.snap_indicator_rect \in EdgeStrips

-----------------------------------------------------------------------------
(* Snapping: when nothing matches *)

\* C24: the resulting coordinate on an axis is the raw candidate whenever
\* that axis matches no screen edge and no qualifying sibling, a distance
\* equal to the threshold not being a match; with snapping disabled both
\* coordinates are the raw candidate.
RawWhenNoMatch ==
    hist.kind = "drag" =>
        /\ ~config.snap_enabled =>
              Dragged.x = Candidate[1] /\ Dragged.y = Candidate[2]
        /\ ~XMatched => Dragged.x = Candidate[1]
        /\ ~YMatched => Dragged.y = Candidate[2]

\* C24 witness: with snapping on, the candidate's left edge was exactly the
\* threshold away from the screen's left edge and x stayed the candidate's
AtThresholdKeptRaw ==
    /\ Dragging
    /\ Abs(Candidate[1] - ScreenLeft) = config.snap_threshold
    /\ ~XMatched
    /\ Dragged.x = Candidate[1]

\* With snapping off a candidate next to the screen's left edge was kept
DisabledKeptRaw ==
    /\ hist.kind = "drag" /\ ~config.snap_enabled
    /\ Abs(Candidate[1] - ScreenLeft) < config.snap_threshold
    /\ Dragged.x = Candidate[1] /\ Dragged.x # ScreenLeft

-----------------------------------------------------------------------------
(* The size-changed hook *)

\* C25: every resize move that changes the content size calls the hook
\* _on_size_changed, for the new size.
ResizeCallsSizeHook ==
    [][(/\ hist'.kind = "resize"
        /\ <<inst'[hist'.w].content_width, inst'[hist'.w].content_height>>
             # <<inst[hist'.w].content_width, inst[hist'.w].content_height>>)
        => hist'.hooks = << <<inst'[hist'.w].content_width,
                             inst'[hist'.w].content_height>> >>]_vars

-----------------------------------------------------------------------------
(* Closing from the manager *)

\* C26: the manager's close operations leave each instance they close as its
\* own close control does: out of the registry BaseWidget._all_widgets, out
\* of the manager's widgets and out of the persisted document.
ManagerCloseAsOwnClose ==
    /\ hist.kind = "remove_selected" => Gone(hist.w)
    /\ hist.kind = "close_all" => \A s \in hist.ws : Gone(s)

\* The part of C26 about close-all alone
CloseAllAsOwnClose ==
    hist.kind = "close_all" => \A s \in hist.ws : Gone(s)

-----------------------------------------------------------------------------
(* Click-through: flag, native style and persisted entry *)

\* C27: with every native style call succeeding, after any sequence of
\* click-through toggles, "disable all" and restores of the persisted layout,
\* the click_through flag of every open widget is set exactly when its window
\* has the transparent style bit, and is the click_through of its entry in
\* the configuration and in the file.
ClickThroughAgrees ==
    \A s \in DOMAIN inst :
        Open(s) =>
            /\ inst[s].click_through = inst[s].ex_transparent
            /\ PersistedClickThrough(config, inst[s]) = <<inst[s].click_through>>
            /\ PersistedClickThrough(Load(disk), inst[s]) = <<inst[s].click_through>>

\* C27 witness: the only widget of the layout, restored without click-through,
\* was toggled on, the process was started again, and the restored widget is
\* click-through in flag, style and entry
ToggledOnAndRestored ==
    /\ hist.kind = "restart"
    /\ DocSolo[1].widgets[1].click_through = FALSE
    /\ Len(Load(disk).widgets) = 1
    /\ Open(1)
    /\ inst[1].click_through /\ inst[1].ex_transparent
    /\ PersistedClickThrough(Load(disk), inst[1]) = <<TRUE>>


-----------------------------------------------------------------------------
(* What a pointer move changes *)

\* C28: a pointer move handled as a resize changes nothing of the widget but
\* its content size, so its position stays, wherever the press was and
\* whatever gestures came before; a pointer move handled as a drag changes
\* the position (and the snap indicator) and leaves the content size as it
\* was.  No other widget changes in either.
MoveChangesOneAspect ==
    [][/\ hist'.kind = "resize" =>
            inst' = [inst EXCEPT
                       ![hist'.w].content_width = inst'[hist'.w].content_width,
                       ![hist'.w].content_height = inst'[hist'.w].content_height]
       /\ hist'.kind = "drag" =>
            inst' = [inst EXCEPT
                       ![hist'.w].x = inst'[hist'.w].x,
                       ![hist'.w].y = inst'[hist'.w].y,
                       ![hist'.w].snap_indicator_rect =
                           inst'[hist'.w].snap_indicator_rect,
                       ![hist'.w].snap_indicator_type =
                           inst'[hist'.w].snap_indicator_type]]_vars

\* C28 witness: a widget that had been dragged away from its restored
\* position was resized by a later gesture, to a size other than the one at
\* the press
ResizedAfterDrag ==
    /\ hist.kind = "resize"
    /\ inst[hist.w].drag_pos # None
    /\ inst[hist.w].x # DocSolo[1].widgets[1].position[1]
    /\ <<inst[hist.w].content_width, inst[hist.w].content_height>>
         # inst[hist.w].resize_start_size

\* A widget that had been resized was dragged by a later gesture
DraggedAfterResize ==
    /\ hist.kind = "drag"
    /\ inst[hist.w].content_width # SIZE_MAP(inst[hist.w].size_key)[1]

-----------------------------------------------------------------------------
(* Snapping: how far it moves the window *)

\* C29: on every drag move, with snapping on or off, the x and the y of the
\* window each differ from the raw candidate's by less than the threshold.
SnapDisplacementBelowThreshold ==
    hist.kind = "drag" =>
        /\ Abs(Dragged.x - Candidate[1]) < config.snap_threshold
        /\ Abs(Dragged.y - Candidate[2]) < config.snap_threshold

\* C29 witness: a snap moved the window on x by 13 pixels or more, to a
\* sibling that was not the nearest one
SnappedFarButBelowThreshold ==
    /\ Dragging
    /\ Abs(Dragged.x - Candidate[1]) >= 13
    /\ \E o \in Siblings : SnapsX(o) /\ Dragged.x = SiblingX(o)

\* A snap to a screen edge moved the window by one pixel less than the
\* threshold
SnappedJustBelowThreshold ==
    /\ Dragging
    /\ \/ Abs(Dragged.x - Candidate[1]) = config.snap_threshold - 1
       \/ Abs(Dragged.y - Candidate[2]) = config.snap_threshold - 1

-----------------------------------------------------------------------------
(* Snapping: where the window ends up against its target *)

\* The rectangle of the dragged window after the move, and of the sibling o
DraggedRect == Geometry(Dragged)
RectOf(o) == Geometry(inst[o])

\* Columns (rows): a is the one right after b
Follows(a, b) == a = b + 1

\* The window's left (top) edge was snapped to the right (bottom) of a
\* sibling and its first column (row) is the one after the sibling's last
AfterSiblingAbuts ==
    Dragging =>
        /\ hist.snap.type_x = <<"widget_left">> =>
              Follows(Left(DraggedRect), Right(RectOf(hist.snap.src_x)))
        /\ hist.snap.type_y = <<"widget_top">> =>
              Follows(Top(DraggedRect), Bottom(RectOf(hist.snap.src_y)))

\* The window's right (bottom) edge was snapped to the left (top) of a
\* sibling and the sibling's first column (row) is the one after its last
BeforeSiblingAbuts ==
    Dragging =>
        /\ hist.snap.type_x = <<"widget_right">> =>
              Follows(Left(RectOf(hist.snap.src_x)), Right(DraggedRect))
        /\ hist.snap.type_y = <<"widget_bottom">> =>
              Follows(Top(RectOf(hist.snap.src_y)), Bottom(DraggedRect))

\* A snap to the screen's left (top) edge puts the window's first column
\* (row) on the screen's first
ScreenNearEdgeFlush ==
    Dragging =>
        /\ hist.snap.type_x = <<"screen_left">> => Left(DraggedRect) = ScreenLeft
        /\ hist.snap.type_y = <<"screen_top">> => Top(DraggedRect) = ScreenTop

\* A snap to the screen's right (bottom) edge puts the window's last column
\* (row) on the screen's last
ScreenFarEdgeFlush ==
    Dragging =>
        /\ hist.snap.type_x = <<"screen_right">> =>
              Right(DraggedRect) = ScreenRight
        /\ hist.snap.type_y = <<"screen_bottom">> =>
              Bottom(DraggedRect) = ScreenBottom

\* C30: snap targets are symmetric, rectangles read with Qt's inclusive
\* right() and bottom(): a window snapped to either side of a sibling abuts
\* it with no shared column or row and no gap, and a window snapped to any
\* screen edge has its outermost column or row on the screen's.
SnapTargetsSymmetric ==
    /\ AfterSiblingAbuts
    /\ BeforeSiblingAbuts
    /\ ScreenNearEdgeFlush
    /\ ScreenFarEdgeFlush

====
